---- MODULE Spec2Model ----
(***************************************************************************)
(* Model of portfolio_tracker.py, a Streamlit script.  Streamlit executes  *)
(* main() from top to bottom once per user interaction ("script run").     *)
(* The only state that survives a run is st.session_state.portfolio and    *)
(* the file held by the st.file_uploader widget.                           *)
(*                                                                         *)
(* Spec     : the session. One action per user interaction, each being the *)
(*            whole script run it triggers (upload logic, add logic,       *)
(*            remove loop), lines 19-110.                                  *)
(* ValSpec  : the valuation block of a run, lines 126-216.  It reads the   *)
(*            portfolio and the provider's answer and writes no session    *)
(*            state, so it is checked as a function of its two inputs.     *)
(***************************************************************************)
EXTENDS Integers, Sequences, FiniteSets, TLC

VARIABLES
    portfolio,   \* st.session_state.portfolio: sequence of [ticker, shares]
    uploaded,    \* the file held by the "Load Portfolio" uploader widget
    notices,     \* st.success / st.warning / st.error / st.info emitted by the last run
    event,       \* the user interaction that triggered the last run
    pending,     \* TRUE between st.rerun() and the run it schedules
    raw,         \* what yf.download(...)['Close'] returned in the last valuation
    result       \* what the valuation block computed and displayed

vars == <<portfolio, uploaded, notices, event, pending, raw, result>>

----------------------------------------------------------------------------
(* Bounds *)

MaxHoldings == 2      \* longest portfolio / longest uploaded file (rows)
MaxDates == 2         \* most rows in a provider answer

Tickers == {"a", "A", "B"}          \* ticker strings a CSV row may carry
CsvShares == {1}                    \* share counts a CSV row may carry
FormShares == {1, 2}                \* share counts entered in the form (min_value=0.01)
PriceValues == {0, 1, 2}            \* closing prices

----------------------------------------------------------------------------
(* Data *)

CsvHoldings == [ticker : Tickers, shares : CsvShares]

SeqsUpTo(S, n) == UNION {[1..k -> S] : k \in 0..n}

\* str.upper() on the form's text input
Upper(t) == IF t = "a" THEN "A" ELSE t

TextInputs == {"", "a", "A", "B"}

NoFile == [present |-> FALSE, parses |-> FALSE, header |-> {}, rows |-> <<>>]

\* a file pd.read_csv raises on
GarbledFile == [present |-> TRUE, parses |-> FALSE, header |-> {}, rows |-> <<>>]

Headers == {{"ticker", "shares"}, {"ticker"}, {"shares"}}

\* a file pd.read_csv parses: its header and its rows as records
CsvFiles ==
    [present : {TRUE}, parses : {TRUE}, header : Headers,
     rows : SeqsUpTo(CsvHoldings, MaxHoldings)]

Files == CsvFiles \cup {GarbledFile}

NoRaw == [shape |-> "none", cols |-> {}, rows |-> <<>>]

NoResult ==
    [outcome |-> "none", columns |-> <<>>, values |-> <<>>,
     current_total |-> 0, start_total |-> 0, delta |-> 0,
     delta_percent |-> [kind |-> "none", value |-> 0],
     composition |-> <<>>]

----------------------------------------------------------------------------
(* The sidebar: lines 19-104 *)

\* What pd.read_csv finds when a run reads a file that an earlier run has read
\* already: a rewound buffer if Streamlit hands the script a new UploadedFile
\* object for the run, an exhausted one if it hands back the object of the
\* earlier run.  A file just selected is always "fresh".
Buffers == {"fresh", "exhausted"}

\* mutant of UploadLogic: the header check of line 52 is left out
UploadLogicNoValidate(p, f, buffer) ==
    IF ~f.present THEN [portfolio |-> p, notices |-> {}]
    ELSE IF ~f.parses \/ buffer = "exhausted"
         THEN [portfolio |-> p, notices |-> {"error_loading"}]
         ELSE [portfolio |-> f.rows, notices |-> {"success_loaded"}]

\* lines 45-60: executed on every run while the uploader holds a file
UploadLogic(p, f, buffer) ==
    IF ~f.present THEN [portfolio |-> p, notices |-> {}]
    ELSE IF ~f.parses \/ buffer = "exhausted"
         THEN [portfolio |-> p, notices |-> {"error_loading"}]
    ELSE IF "ticker" \in f.header /\ "shares" \in f.header
         THEN [portfolio |-> f.rows, notices |-> {"success_loaded"}]
         ELSE [portfolio |-> p, notices |-> {"error_columns"}]

\* line 79: what yf.Ticker(t).history(period="1d") did
Probes == {"found", "empty", "raises"}

HasTicker(p, t) == \E k \in 1..Len(p) : p[k].ticker = t

\* lines 69-91: the form was submitted with this text and share count
AddLogic(p, text, shares, probe) ==
    LET ticker_input == Upper(text) IN
    IF ticker_input = "" THEN [portfolio |-> p, notices |-> {"warning_enter"}]
    ELSE IF HasTicker(p, ticker_input)
         THEN [portfolio |-> p, notices |-> {"warning_already"}]
    ELSE IF probe = "found"
         THEN [portfolio |-> Append(p, [ticker |-> ticker_input, shares |-> shares]),
               notices |-> {"success_added"}]
    ELSE IF probe = "empty"
         THEN [portfolio |-> p, notices |-> {"error_no_data"}]
         ELSE [portfolio |-> p, notices |-> {"error_adding"}]

\* list.pop(i), 1-based here
Pop(p, i) == [k \in 1..(Len(p) - 1) |-> IF k < i THEN p[k] ELSE p[k + 1]]

\* lines 95-104 and 108-110
EmptyNotices(p) == IF p = <<>> THEN {"info_no_stocks"} ELSE {}

Init ==
    /\ portfolio = <<>>
    /\ uploaded = NoFile
    /\ notices = {"info_no_stocks"}
    /\ event = "open"
    /\ pending = FALSE
    /\ raw = NoRaw
    /\ result = NoResult

\* the user picks a file in the uploader: a run with the new file, no submit, no click
SelectFile(f) ==
    /\ ~pending
    /\ f # uploaded
    /\ LET up == UploadLogic(portfolio, f, "fresh") IN
       /\ portfolio' = up.portfolio
       /\ notices' = up.notices \cup EmptyNotices(up.portfolio)
    /\ uploaded' = f
    /\ event' = "select_file"
    /\ UNCHANGED <<pending, raw, result>>

\* the user clears the uploader: a run with uploaded_file None
ClearFile ==
    /\ ~pending
    /\ uploaded.present
    /\ uploaded' = NoFile
    /\ notices' = EmptyNotices(portfolio)
    /\ event' = "clear_file"
    /\ UNCHANGED <<portfolio, pending, raw, result>>

\* the user submits the add form: upload logic, then add logic
SubmitAdd(text, shares, probe, buffer) ==
    /\ ~pending
    /\ LET up == UploadLogic(portfolio, uploaded, buffer)
           ad == AddLogic(up.portfolio, text, shares, probe) IN
       /\ Len(ad.portfolio) <= MaxHoldings
       /\ portfolio' = ad.portfolio
       /\ notices' = up.notices \cup ad.notices \cup EmptyNotices(ad.portfolio)
    /\ event' = "submit"
    /\ UNCHANGED <<uploaded, pending, raw, result>>

\* the user clicks the remove button rendered at index i by the previous run:
\* upload logic, then the loop of lines 96-102 over the portfolio as it is now
ClickRemove(i, buffer) ==
    /\ ~pending
    /\ i \in 1..Len(portfolio)
    /\ LET up == UploadLogic(portfolio, uploaded, buffer) IN
       IF i <= Len(up.portfolio)
       THEN /\ portfolio' = Pop(up.portfolio, i)
            /\ notices' = up.notices
            /\ pending' = TRUE
       ELSE /\ portfolio' = up.portfolio
            /\ notices' = up.notices \cup EmptyNotices(up.portfolio)
            /\ pending' = FALSE
    /\ event' = "remove"
    /\ UNCHANGED <<uploaded, raw, result>>

\* the user moves the lookback slider (rendered only when the portfolio is
\* non-empty, line 108): a run with no submit and no click
MoveSlider(buffer) ==
    /\ ~pending
    /\ portfolio # <<>>
    /\ LET up == UploadLogic(portfolio, uploaded, buffer) IN
       /\ portfolio' = up.portfolio
       /\ notices' = up.notices \cup EmptyNotices(up.portfolio)
    /\ event' = "slider"
    /\ UNCHANGED <<uploaded, pending, raw, result>>

\* the run scheduled by st.rerun() at line 102
RerunAfterRemove(buffer) ==
    /\ pending
    /\ LET up == UploadLogic(portfolio, uploaded, buffer) IN
       /\ portfolio' = up.portfolio
       /\ notices' = up.notices \cup EmptyNotices(up.portfolio)
    /\ pending' = FALSE
    /\ event' = "rerun"
    /\ UNCHANGED <<uploaded, raw, result>>

Next ==
    \/ \E f \in Files : SelectFile(f)
    \/ ClearFile
    \/ \E text \in TextInputs, shares \in FormShares, probe \in Probes, buffer \in Buffers :
          SubmitAdd(text, shares, probe, buffer)
    \/ \E i \in 1..MaxHoldings, buffer \in Buffers : ClickRemove(i, buffer)
    \/ \E buffer \in Buffers : MoveSlider(buffer)
    \/ \E buffer \in Buffers : RerunAfterRemove(buffer)

Spec == Init /\ [][Next]_vars

----------------------------------------------------------------------------
(* The valuation block: lines 126-216 *)

\* a cell of a price or value table: <<>> is NaN, <<v>> is the number v
Missing == <<>>
Cells == {Missing} \cup {<<v>> : v \in PriceValues}

\* line 130
TickerList(p) == [k \in 1..Len(p) |-> p[k].ticker]

\* line 131: a dict comprehension, the last item of a ticker wins
ShareMap(p) ==
    [t \in {p[k].ticker : k \in 1..Len(p)} |->
        p[CHOOSE k \in 1..Len(p) :
            /\ p[k].ticker = t
            /\ \A j \in (k + 1)..Len(p) : p[j].ticker # t].shares]

\* line 140: the symbols the provider is asked for; it upper-cases them
Requested(tickers) == {Upper(tickers[k]) : k \in 1..Len(tickers)}

\* the rows a provider answer can have: up to MaxDates rows, a cell per column
TablesOver(cols) == UNION {[1..n -> [cols -> Cells]] : n \in 0..MaxDates}

\* rows carry their position as date: dates strictly increasing
Dated(rows) == [k \in 1..Len(rows) |-> [date |-> k, px |-> rows[k]]]

\* line 140: what yf.download(...)['Close'] can hand back for these tickers:
\* a Series (one symbol), a DataFrame with a column per symbol it has an
\* answer for, or an exception
RawAnswers(tickers) ==
    {[shape |-> "raises", cols |-> {}, rows |-> <<>>]}
    \cup (IF Cardinality(Requested(tickers)) = 1
          THEN {[shape |-> "series", cols |-> {"Close"}, rows |-> Dated(r)] :
                    r \in TablesOver({"Close"})}
          ELSE {})
    \cup UNION {{[shape |-> "frame", cols |-> c, rows |-> Dated(r)] :
                    r \in TablesOver(c)} : c \in SUBSET Requested(tickers)}

\* lines 143-144: a Series becomes a one-column frame named tickers[0]
ToFrame(rw, tickers) ==
    IF rw.shape = "series"
    THEN [cols |-> {tickers[1]},
          rows |-> [k \in 1..Len(rw.rows) |->
                      [date |-> rw.rows[k].date,
                       px |-> [c \in {tickers[1]} |-> rw.rows[k].px["Close"]]]]]
    ELSE [cols |-> rw.cols, rows |-> rw.rows]

\* mutant of DropAllNaN: the dropna of line 147 is left out
DropNothing(df) == df

\* line 147: df.dropna(how='all') keeps the rows with a number in some column
HasData(row, cols) == \E c \in cols : row.px[c] # Missing

DropAllNaN(df) ==
    [cols |-> df.cols, rows |-> SelectSeq(df.rows, LAMBDA r : HasData(r, df.cols))]

\* lines 152-154: the columns of portfolio_value_df, in order of first assignment
RECURSIVE ValueColumns(_, _, _)
ValueColumns(tickers, cols, k) ==
    IF k = 0 THEN <<>>
    ELSE LET before == ValueColumns(tickers, cols, k - 1) IN
         IF tickers[k] \in cols /\ \A j \in 1..Len(before) : before[j] # tickers[k]
         THEN Append(before, tickers[k])
         ELSE before

\* line 154: price * shares, NaN stays NaN
Times(cell, shares) == IF cell = Missing THEN Missing ELSE <<cell[1] * shares>>

\* line 157: DataFrame.sum(axis=1) skips NaN; the sum of nothing is 0
RECURSIVE RowSum(_, _, _)
RowSum(val, columns, k) ==
    IF k = 0 THEN 0
    ELSE RowSum(val, columns, k - 1)
         + (IF val[columns[k]] = Missing THEN 0 ELSE val[columns[k]][1])

\* lines 150-157: portfolio_value_df, one row per row of df
ValueTable(df, columns, share_map) ==
    [k \in 1..Len(df.rows) |->
        LET val == [c \in {columns[j] : j \in 1..Len(columns)} |->
                        Times(df.rows[k].px[c], share_map[c])] IN
        [date |-> df.rows[k].date, val |-> val,
         total |-> RowSum(val, columns, Len(columns))]]

\* line 163: numpy float division; x/0 is inf, 0/0 is nan, neither raises.
\* A finite quotient is kept in hundredths of a percent, rounded down (the
\* metric shows two decimals).
DeltaPercent(delta, start_total) ==
    IF start_total # 0
    THEN [kind |-> "finite", value |-> (delta * 10000) \div start_total]
    ELSE IF delta = 0 THEN [kind |-> "nan", value |-> 0]
         ELSE [kind |-> "inf", value |-> 0]

\* mutant of Composition: .iloc[0] instead of .iloc[-1]
CompositionFirstRow(values, columns) ==
    [k \in 1..Len(columns) |->
        [Ticker |-> columns[k], Value |-> values[1].val[columns[k]]]]

\* lines 189, 202-203: the last row of the per-asset columns, one entry per column
Composition(values, columns) ==
    [k \in 1..Len(columns) |->
        [Ticker |-> columns[k], Value |-> values[Len(values)].val[columns[k]]]]

\* what the except handler of lines 214-216 leaves on the page
ErrorResult ==
    [outcome |-> "error", columns |-> <<>>, values |-> <<>>,
     current_total |-> 0, start_total |-> 0, delta |-> 0,
     delta_percent |-> [kind |-> "none", value |-> 0],
     composition |-> <<>>]

\* lines 160-212 on a value table.  .iloc[-1] of an empty column raises
\* IndexError before anything is shown.  charts is what px.line does when it is
\* given no asset column at all (line 191, after the metrics and the Total
\* chart were shown): it draws an empty chart or it raises.
Display(values, columns, charts) ==
    IF Len(values) = 0 THEN ErrorResult
    ELSE LET current_total == values[Len(values)].total
             start_total == values[1].total
             delta == current_total - start_total
             shown == [outcome |-> "ok", columns |-> columns, values |-> values,
                       current_total |-> current_total, start_total |-> start_total,
                       delta |-> delta,
                       delta_percent |-> DeltaPercent(delta, start_total),
                       composition |-> Composition(values, columns)] IN
         IF columns = <<>> /\ charts = "raises"
         THEN [shown EXCEPT !.outcome = "error"]
         ELSE shown

\* mutant of ComputeValuation: the loop of lines 152-154 without its
\* "if ticker in df.columns", so a held ticker without a column raises KeyError
ComputeValuationNoColumnCheck(p, rw, charts) ==
    IF rw.shape = "raises" THEN ErrorResult
    ELSE LET tickers == TickerList(p)
             df == DropAllNaN(ToFrame(rw, tickers))
             columns == ValueColumns(tickers, df.cols, Len(tickers)) IN
         IF \E k \in 1..Len(tickers) : tickers[k] \notin df.cols
         THEN ErrorResult
         ELSE Display(ValueTable(df, columns, ShareMap(p)), columns, charts)

\* lines 128-216
ComputeValuation(p, rw, charts) ==
    IF rw.shape = "raises" THEN ErrorResult
    ELSE LET tickers == TickerList(p)
             df == DropAllNaN(ToFrame(rw, tickers))
             columns == ValueColumns(tickers, df.cols, Len(tickers)) IN
         Display(ValueTable(df, columns, ShareMap(p)), columns, charts)

\* lines 215-216
ValuationNotices(res) ==
    IF res.outcome = "error" THEN {"error_processing", "info_hint"} ELSE {}

\* portfolios a session can hold when the valuation block is reached (line 108:
\* non-empty): any rows of a CSV, any holdings added through the form
SessionHoldings ==
    [ticker : Tickers, shares : CsvShares]
    \cup [ticker : {Upper(t) : t \in TextInputs \ {""}}, shares : FormShares]

ValInit ==
    /\ portfolio \in SeqsUpTo(SessionHoldings, MaxHoldings) \ {<<>>}
    /\ uploaded = NoFile
    /\ notices = {}
    /\ event = "open"
    /\ pending = FALSE
    /\ raw = NoRaw
    /\ result = NoResult

\* the valuation block of one run, on the provider's answer rw
Valuate(rw, charts) ==
    /\ raw' = rw
    /\ result' = ComputeValuation(portfolio, rw, charts)
    /\ notices' = ValuationNotices(result')
    /\ event' = "valuation"
    /\ UNCHANGED <<portfolio, uploaded, pending>>

\* one valuation per run
ValNext ==
    /\ event = "open"
    /\ \E rw \in RawAnswers(TickerList(portfolio)), charts \in {"drawn", "raises"} :
          Valuate(rw, charts)

ValSpec == ValInit /\ [][ValNext]_vars

----------------------------------------------------------------------------
(* Vocabulary of the properties *)

HeldTickers == {portfolio[k].ticker : k \in 1..Len(portfolio)}

\* the valuation of the last run got an answer from the provider
Valued == event = "valuation" /\ raw.shape \in {"series", "frame"}

\* the price table the valuation worked on, before rows were dropped
PriceTable == ToFrame(raw, TickerList(portfolio))

AbsentTickers == {t \in HeldTickers : t \notin PriceTable.cols}
PresentTickers == {t \in HeldTickers : t \in PriceTable.cols}

HasPrice(t, d) == PriceTable.rows[d].px[t] # Missing

RECURSIVE SetSum(_, _)
SetSum(f, S) ==
    IF S = {} THEN 0
    ELSE LET x == CHOOSE y \in S : TRUE IN f[x] + SetSum(f, S \ {x})

\* price x shares of the held tickers that have a price at date d, added up
ExpectedTotal(d) ==
    SetSum([t \in PresentTickers |->
                IF HasPrice(t, d) THEN PriceTable.rows[d].px[t][1] * ShareMap(portfolio)[t]
                ELSE 0],
           PresentTickers)

\* dates of the price table on which some column has a price
DataDates == {d \in 1..Len(PriceTable.rows) : \E c \in PriceTable.cols : HasPrice(c, d)}

LatestDataDate == CHOOSE d \in DataDates : \A e \in DataDates : e <= d
EarliestDataDate == CHOOSE d \in DataDates : \A e \in DataDates : d <= e

CompositionTickers == {result.composition[k].Ticker : k \in 1..Len(result.composition)}

LastRow == result.values[Len(result.values)]

\* the uploader holds a parsed file whose header lacks 'ticker' or 'shares'
LacksColumn(f) ==
    f.present /\ f.parses /\ ~("ticker" \in f.header /\ "shares" \in f.header)

----------------------------------------------------------------------------
(* Properties *)

\* C1: in every reachable state of the session no two holdings of the
\* portfolio have the same ticker.
C1_UniqueTickers ==
    \A i, j \in 1..Len(portfolio) :
        i # j => portfolio[i].ticker # portfolio[j].ticker

\* C2: for every date of the value table, Total is the sum of the non-missing
\* values of the held tickers at that date, and some held ticker has a
\* non-missing value there (a date where all are missing is not in the table).
C2_TotalsAndNoAllMissingDate ==
    result.outcome = "ok" =>
        \A k \in 1..Len(result.values) :
            LET row == result.values[k]
                valued == {t \in HeldTickers :
                              t \in DOMAIN row.val /\ row.val[t] # Missing} IN
            /\ row.total = SetSum([t \in valued |-> row.val[t][1]], valued)
            /\ valued # {}

\* C3: when a held ticker has no column in the price table and another held
\* ticker has a price on some date, the valuation succeeds, the absent ticker
\* has no composition entry, and every Total and currentTotal are price x
\* shares summed over the held tickers that do have a column.
C3_AbsentTickerSkipped ==
    (/\ Valued
     /\ AbsentTickers # {}
     /\ \E u \in PresentTickers : \E d \in 1..Len(PriceTable.rows) : HasPrice(u, d))
    => /\ result.outcome = "ok"
       /\ AbsentTickers \cap CompositionTickers = {}
       /\ \A k \in 1..Len(result.values) :
              result.values[k].total = ExpectedTotal(result.values[k].date)
       /\ result.current_total = ExpectedTotal(LatestDataDate)

C3_Witness ==
    /\ Valued
    /\ AbsentTickers # {}
    /\ \E u \in PresentTickers : \E d \in 1..Len(PriceTable.rows) : HasPrice(u, d)
    /\ result.outcome = "ok"
    /\ result.current_total > 0
    /\ Len(result.values) = 2

\* C4: whenever a held ticker is absent from the price data, the valuation
\* reports a warning about an unknown ticker and does not end in an error.
C4_UnknownTickerWarned ==
    (Valued /\ AbsentTickers # {})
    => /\ "warning_unknown_ticker" \in notices
       /\ "error_processing" \notin notices

\* C5: composition has an entry for exactly the held tickers whose value at
\* the latest date of the value table is non-missing, and no entry is missing.
C5_CompositionOnlyValued ==
    result.outcome = "ok" =>
        /\ CompositionTickers =
               {t \in HeldTickers : t \in DOMAIN LastRow.val /\ LastRow.val[t] # Missing}
        /\ \A k \in 1..Len(result.composition) : result.composition[k].Value # Missing

\* C6: if no row of the price table has a price in any column (so no row is
\* left after the all-missing rows are dropped), the valuation ends in the
\* error outcome and shows no metrics, no value table and no composition.
C6_NoRowsIsError ==
    (Valued /\ DataDates = {})
    => /\ result.outcome = "error"
       /\ "error_processing" \in notices
       /\ result.values = <<>>
       /\ result.composition = <<>>
       /\ result.delta_percent.kind = "none"

C6_Witness ==
    /\ Valued
    /\ DataDates = {}
    /\ Len(raw.rows) = 2
    /\ raw.cols # {}
    /\ result.outcome = "error"

\* C7: if startTotal is 0, deltaPct is reported as an explicit undefined value,
\* not as NaN or an infinity, and the valuation does not end in an error.
C7_ZeroStartFlagged ==
    (Valued /\ DataDates # {} /\ ExpectedTotal(EarliestDataDate) = 0)
    => /\ result.outcome = "ok"
       /\ result.delta_percent.kind = "undefined"

RECURSIVE CompositionSum(_, _)
CompositionSum(comp, k) ==
    IF k = 0 THEN 0
    ELSE CompositionSum(comp, k - 1)
         + (IF comp[k].Value = Missing THEN 0 ELSE comp[k].Value[1])

\* C8: whenever the valuation succeeds, the values listed in composition add
\* up to currentTotal (a missing entry adds nothing, as in pandas' sum).
C8_CompositionSumsToTotal ==
    result.outcome = "ok" =>
        CompositionSum(result.composition, Len(result.composition)) = result.current_total

C8_Witness ==
    /\ result.outcome = "ok"
    /\ Len(result.composition) = 2
    /\ \A k \in 1..2 : result.composition[k].Value # Missing
    /\ result.composition[1].Value # result.composition[2].Value
    /\ result.current_total = 3
    /\ result.start_total # result.current_total

\* C9: a run triggered by selecting a file that lacks a 'ticker' or a 'shares'
\* column shows an error and leaves the portfolio as it was; a file selection
\* changes the portfolio only if the file has both columns.
C9_BadUploadRejected ==
    [][event' = "select_file" =>
          /\ LacksColumn(uploaded') =>
                (portfolio' = portfolio /\ "error_columns" \in notices')
          /\ portfolio' # portfolio =>
                ("ticker" \in uploaded'.header /\ "shares" \in uploaded'.header)]_vars

C9_Witness ==
    /\ event = "select_file"
    /\ LacksColumn(uploaded)
    /\ "error_columns" \in notices
    /\ portfolio # <<>>
    /\ uploaded.rows # <<>>
    /\ uploaded.rows # portfolio

\* C10: a run in which the user neither submits the form, nor clicks a remove
\* button, nor selects a file (the slider moved, or the rerun after a removal)
\* leaves the portfolio unchanged.
C10_OnlyUserActionsChange ==
    [][event' \in {"slider", "rerun"} => portfolio' = portfolio]_vars

====
